---- MODULE Spec2Model ----
(***************************************************************************)
(* Interview-preparation workflow of the CleverMock backend:               *)
(*   app/core/graph.py                 the LangGraph state machine         *)
(*   app/api/v1/endpoints/prepare.py   start / refine / accept endpoints   *)
(* One conversation document in the store, and Procs concurrent request    *)
(* handlers working on it.  Every handler loads the document, works on its *)
(* private copy and writes the whole document back.                        *)
(***************************************************************************)
EXTENDS Integers, Sequences, FiniteSets, TLC

\* ------------------------------------------------------------ bounds
MaxOps == 3            \* requests (start, refine, accept) begun in one run
\* Request handlers that may overlap.
Procs == {1, 2}

\* ------------------------------------------------------------ inputs
\* User messages typed into /refine, with the length of each.
Msgs == {"m_short", "m_long"}
MsgLen(m) == IF m = "m_short" THEN 24 ELSE 25
\* Text extracted from the uploaded PDF, with the length of each.
CvBases == {"cv_empty", "cv_long"}
BaseLen(b) == IF b = "cv_empty" THEN 0 ELSE 60
\* Position form field of /start.
Positions == {"pos0"}
\* Completions the gateway may return for a plan prompt (possibly empty).
Completions == {"", "planA", "planB"}

\* Gateway answers to the position prompt, as character sequences.
RespYes == <<"Y", "E", "S">>
RespNo == <<"N", "O">>
RespYesLower == <<" ", "y", "e", "s", "\n">>
RespPartial == <<"e", "y", "e", "s">>
PositionResponses == {RespYes, RespNo, RespYesLower, RespPartial}

\* Gateway answers to the CV prompt: the raw text as a sequence of tokens
\* (TokKey stands for the double-quoted key "is_valid" with its colon), what
\* json.loads makes of the text once the code fences are stripped ("dict",
\* "nondict", "error"), and the value under "is_valid" when it is a dict.
TokKey == "'is_valid':"
TokFence == "<fence>"   \* the three backquotes of a Markdown code fence
CvResponses ==
  { [json |-> "dict", flag |-> TRUE, raw |-> <<"{", TokKey, " ", "true", "}">>],
    [json |-> "dict", flag |-> FALSE, raw |-> <<"{", TokKey, " ", "false", "}">>],
    [json |-> "nondict", flag |-> FALSE, raw |-> <<"[", "]">>],
    [json |-> "error", flag |-> FALSE, raw |-> <<"junk", TokKey, " ", "true">>],
    [json |-> "error", flag |-> FALSE,
     raw |-> <<TokFence, "json", "\n", TokKey, "true", "\n", TokFence, "\n">>],
    [json |-> "error", flag |-> FALSE, raw |-> <<"junk", TokKey, " ", " ", "true">>] }
NoAnswer == [json |-> "", flag |-> FALSE, raw |-> <<>>]

\* ------------------------------------------------------------ strings
SepLen == 25           \* len("\n\nUser provided details: ")
MinCvLen == 50

RECURSIVE SumLen(_)
SumLen(ext) == IF ext = <<>> THEN 0
               ELSE SepLen + MsgLen(Head(ext)) + SumLen(Tail(ext))

\* cv_text is the extracted text followed by the appended user details.
CvText(b, ext) == [base |-> b, ext |-> ext]
CvLen(t) == BaseLen(t.base) + SumLen(t.ext)
\* Variant in which the user's message replaces the text.
CvAppendReplace(t, m) == [base |-> "cv_empty", ext |-> <<m>>]
CvAppend(t, m) == [t EXCEPT !.ext = Append(@, m)]

IsSpace(c) == c \in {" ", "\n", "\t"}
RECURSIVE LStrip(_)
LStrip(s) == IF s # <<>> /\ IsSpace(Head(s)) THEN LStrip(Tail(s)) ELSE s
RECURSIVE RStrip(_)
RStrip(s) == IF s # <<>> /\ IsSpace(s[Len(s)])
             THEN RStrip(SubSeq(s, 1, Len(s) - 1)) ELSE s
Strip(s) == RStrip(LStrip(s))
UpperChar(c) == CASE c = "y" -> "Y" [] c = "e" -> "E" [] c = "s" -> "S"
                  [] c = "n" -> "N" [] c = "o" -> "O" [] OTHER -> c
Upper(s) == [i \in 1..Len(s) |-> UpperChar(s[i])]
\* Python's  sub in s
Contains(s, sub) ==
  \E i \in 1..(Len(s) - Len(sub) + 1) : SubSeq(s, i, i + Len(sub) - 1) = sub

\* validate_cv: strip() and the three re.sub calls that drop code fences.
CleanCvContent(raw) ==
  LET a == Strip(raw)
      b == IF Len(a) >= 2 /\ SubSeq(a, 1, 2) = <<TokFence, "json">>
           THEN LStrip(SubSeq(a, 3, Len(a))) ELSE a
      c == IF b # <<>> /\ Head(b) = TokFence THEN LStrip(Tail(b)) ELSE b
  IN IF c # <<>> /\ c[Len(c)] = TokFence
     THEN RStrip(SubSeq(c, 1, Len(c) - 1)) ELSE c

\* ------------------------------------------------------------ values
NodeIds == {"validate_position", "validate_cv", "generate_details", "refine_plan"}

HumanMessage(m) == [role |-> "human", type |-> "user", arg |-> m]
AIMessage(type, arg) == [role |-> "ai", type |-> type, arg |-> arg]
Message(sender, type, arg) == [sender_type |-> sender, type |-> type, arg |-> arg]

\* cv_details: the key is absent, None, or the dict validate_cv stored.
AbsentDetails == [tag |-> "absent", name |-> "", skills |-> <<>>]
NullDetails == [tag |-> "null", name |-> "", skills |-> <<>>]
ParsedProfile == [tag |-> "dict", name |-> "cand", skills |-> <<"skill">>]
PlaceholderProfile == [tag |-> "dict", name |-> "Unknown", skills |-> <<>>]

BlankMeta ==
  [cv_text |-> CvText("cv_empty", <<>>), position |-> "", instruction |-> "",
   status |-> "", position_valid |-> FALSE, cv_valid |-> FALSE,
   interview_details |-> "", cv_details |-> AbsentDetails]

\* The document of the conversations collection; exists = FALSE before /start.
NoConv == [exists |-> FALSE, meta |-> BlankMeta, messages |-> <<>>]

\* PrepareState: the metadata fields plus the messages channel.
BlankState == [meta |-> BlankMeta, messages |-> <<>>]
NoFail == [node |-> "", cause |-> ""]
NoChecked == [done |-> FALSE, text |-> CvText("cv_empty", <<>>),
              called |-> FALSE, answer |-> NoAnswer]
NoResp == [status |-> "", type |-> "", arg |-> ""]

\* ------------------------------------------------------------ review values
MaxReviewOps == 3
ReviewProcs == {1, 2}
Users == {"u1", "u2"}
ConvIds == {"c1", "c2"}
MinRating == 1
MaxRating == 5
Ratings == MinRating..MaxRating
\* overall_rating values the callers send.
RatingsGiven == {3, 5}

\* Conversation.get: None, or a document with its owner and transcript.
MissingConv == [exists |-> FALSE, user_id |-> "", transcript |-> <<>>]
StoredConvs ==
  {[exists |-> TRUE, user_id |-> u, transcript |-> tr] :
     u \in Users, tr \in {<<>>, <<"line">>}}
NoReview == [conversation_id |-> "", user_id |-> "", overall_rating |-> 0]
NoReviewRequest == [op |-> "", caller |-> "", conversation_id |-> "", overall_rating |-> 0]
NoStats == [total_reviews |-> 0, rating_sum |-> 0, rating_distribution |-> <<>>]
NoReviewResponse == [code |-> 0, review |-> NoReview, stats |-> NoStats]

\* ------------------------------------------------------------ auth values
MaxAuthOps == 4
AuthProcs == {1, 2}
\* The users collection without the passwords: no modelled endpoint changes
\* these fields.
Accounts ==
  {[email |-> "e1", id |-> "u1", is_active |-> TRUE],
   [email |-> "e2", id |-> "u2", is_active |-> FALSE]}
Emails == {"e1", "e2", "e3"}
NoAccount == [email |-> "", id |-> "", is_active |-> FALSE]
\* User.find_one(User.email == email)
AccountOf(email) ==
  IF \E a \in Accounts : a.email = email
  THEN CHOOSE a \in Accounts : a.email = email ELSE NoAccount
\* User.get(sub)
AccountById(id) ==
  IF \E a \in Accounts : a.id = id
  THEN CHOOSE a \in Accounts : a.id = id ELSE NoAccount

\* A signed JWT is its payload; BadToken is a string jwt.decode rejects.
NoToken == [type |-> "", sub |-> "", jti |-> 0]
BadToken == [type |-> "garbage", sub |-> "", jti |-> 0]
AccessToken(sub, jti) == [type |-> "access", sub |-> sub, jti |-> jti]
RefreshToken(sub, jti) == [type |-> "refresh", sub |-> sub, jti |-> jti]
NoAuthRequest ==
  [op |-> "", token |-> NoToken, email |-> "", reset_token |-> 0, new_password |-> ""]
NoAuthResponse ==
  [code |-> 0, access_token |-> NoToken, refresh_token |-> NoToken, message |-> ""]
NotValidated == "Could not validate credentials"
WrongType == "Invalid token type"
Revoked == "Token has been revoked"
DuplicateKey == "DuplicateKeyError"
LoggedOut == "Successfully logged out"
ResetLinkSent == "If the email exists, a password reset link has been sent"
InvalidResetToken == "Invalid or expired reset token"
ExpiredResetToken == "Reset token has expired"
PasswordWasReset == "Password has been reset successfully"
\* Passwords: the one every user signed up with and the ones sent to
\* /auth/reset-password.
FirstPassword == "pw0"
NewPasswords == {"pw1", "pw2"}
\* get_password_hash: a salted hash, known here by the password it verifies.
GetPasswordHash(password) == [verifies |-> password]

\* ------------------------------------------------------------ chat values
MaxChatOps == 3        \* connections opened and messages sent in one run
\* The conversation of the chat, and an id no conversation has.
ChatConv == "c1"
NoChatConv == "c0"
ChatCreator == "u1"
\* A websocket: the user_id and the conversation_id of its URL.
Sockets == {[user_id |-> u, conversation_id |-> c] : u \in Users, c \in {ChatConv, NoChatConv}}
\* The stored conversation: participants and the sender_type of each message.
NewChat == [participants |-> {ChatCreator}, messages |-> <<>>]

VARIABLES
  db,        \* the stored conversation document
  pc,        \* where each handler is
  kind,      \* the endpoint each handler serves
  conv,      \* the document each handler loaded (its in-memory copy)
  st,        \* the graph state of each handler's turn
  ran,       \* nodes each handler's turn has executed, in order
  calls,     \* gateway calls each handler's turn has issued
  fail,      \* node and cause of the exception that ended the turn
  cvChecked, \* validate_cv in this turn: the local cv_text it examined,
             \* whether it called the gateway, and the answer that did not
             \* parse as JSON, if any
  resp,      \* text the endpoint returns to the caller
  got,       \* last completion each handler received for a plan prompt
  posAnswer, \* validate_position: the answer the handler has just received
             \* (RespYes stands for every answer that is the token YES)
  ops,       \* requests begun so far
  rconvs,    \* review endpoints: the conversations, by id
  reviews,   \* review endpoints: the stored reviews, in insertion order
  rpc,       \* review endpoints: where each handler is
  rreq,      \* review endpoints: the request each handler serves
  rresp,     \* review endpoints: status code and body each handler returns
  rops,      \* review endpoints: requests begun so far
  blacklist, \* auth: the token_blacklist collection, the token_jti of each entry
  issued,    \* auth: the tokens handed out so far
  resets,    \* auth: the password_resets collection, in insertion order
  nextId,    \* auth: stands for the next value of the random generators
  hashed,    \* auth: hashed_password of each user, by id
  apc,       \* auth: where each handler is
  areq,      \* auth: the request each handler serves
  aresp,     \* auth: status code and body each handler returns
  aops,      \* auth: requests begun so far
  chat,      \* chat: the stored conversation
  active,    \* chat: the websockets in manager.active_connections
  wpc,       \* chat: where the handler of each websocket is
  wdoc,      \* chat: the conversation each websocket handler loaded
  mpc,       \* chat: where the create_message handler is
  mdoc,      \* chat: the conversation the create_message handler loaded
  delivered, \* chat: what was sent to which websocket
  cops       \* chat: connections opened and messages sent so far

prepareVars ==
  <<db, pc, kind, conv, st, ran, calls, fail, cvChecked, resp, got, posAnswer, ops>>
reviewVars == <<rconvs, reviews, rpc, rreq, rresp, rops>>
authVars == <<blacklist, issued, resets, nextId, hashed, apc, areq, aresp, aops>>
chatVars == <<chat, active, wpc, wdoc, mpc, mdoc, delivered, cops>>
vars == <<prepareVars, reviewVars, authVars, chatVars>>
outsidePrepare == <<reviewVars, authVars, chatVars>>
outsideReview == <<prepareVars, authVars, chatVars>>
outsideAuth == <<prepareVars, reviewVars, chatVars>>
outsideChat == <<prepareVars, reviewVars, authVars>>

\* The conversation exists with its creator as participant; no websocket is
\* connected and no message is being handled.
ChatIdle ==
  /\ chat = NewChat
  /\ active = {}
  /\ wpc = [s \in Sockets |-> "closed"]
  /\ wdoc = [s \in Sockets |-> NewChat]
  /\ mpc = "idle"
  /\ mdoc = NewChat
  /\ delivered = {}
  /\ cops = 0

\* No review request is served and no review is stored.
ReviewIdle ==
  /\ reviews = <<>>
  /\ rpc = [h \in ReviewProcs |-> "idle"]
  /\ rreq = [h \in ReviewProcs |-> NoReviewRequest]
  /\ rresp = [h \in ReviewProcs |-> NoReviewResponse]
  /\ rops = 0

\* No token has been issued and no auth request is served.
AuthIdle ==
  /\ blacklist = <<>>
  /\ issued = {}
  /\ resets = <<>>
  /\ nextId = 1
  /\ hashed = [id \in {a.id : a \in Accounts} |-> GetPasswordHash(FirstPassword)]
  /\ apc = [h \in AuthProcs |-> "idle"]
  /\ areq = [h \in AuthProcs |-> NoAuthRequest]
  /\ aresp = [h \in AuthProcs |-> NoAuthResponse]
  /\ aops = 0

PrepareIdle ==
  /\ db = NoConv
  /\ pc = [p \in Procs |-> "idle"]
  /\ kind = [p \in Procs |-> "none"]
  /\ conv = [p \in Procs |-> NoConv]
  /\ st = [p \in Procs |-> BlankState]
  /\ ran = [p \in Procs |-> <<>>]
  /\ calls = [p \in Procs |-> 0]
  /\ fail = [p \in Procs |-> NoFail]
  /\ cvChecked = [p \in Procs |-> NoChecked]
  /\ resp = [p \in Procs |-> NoResp]
  /\ got = [p \in Procs |-> ""]
  /\ posAnswer = [p \in Procs |-> <<>>]
  /\ ops = 0

Init ==
  /\ PrepareIdle
  /\ ReviewIdle
  /\ AuthIdle
  /\ ChatIdle
  /\ rconvs = [c \in ConvIds |-> MissingConv]

\* ------------------------------------------------------------ graph
Last(s) == s[Len(s)]
LastIsHuman(msgs) == msgs # <<>> /\ Last(msgs).role = "human"

\* Router variants used to test the claims' sensitivity to the router.
RouterDetailsOnly(s) ==
  IF ~s.meta.position_valid THEN "validate_position"
  ELSE IF ~s.meta.cv_valid THEN "validate_cv"
  ELSE IF s.meta.interview_details # "" THEN "refine_plan"
  ELSE "generate_details"

RouterAlwaysPosition(s) == "validate_position"

\* Variant that looks at the CV before the position.
RouterCvFirst(s) ==
  IF ~s.meta.cv_valid THEN "validate_cv"
  ELSE IF ~s.meta.position_valid THEN "validate_position"
  ELSE IF s.meta.status = "generated" \/ s.meta.interview_details # ""
       THEN "refine_plan"
  ELSE "generate_details"

\* router: the conditional entry edge.
Router(s) ==
  IF ~s.meta.position_valid THEN "validate_position"
  ELSE IF ~s.meta.cv_valid THEN "validate_cv"
  ELSE IF s.meta.status = "generated" \/ s.meta.interview_details # ""
       THEN "refine_plan"
  ELSE "generate_details"

\* start_node returns the whole state, so the messages channel (reducer
\* operator.add) receives its own content a second time.
StartNode(s) == [s EXCEPT !.messages = @ \o @]

\* Variant that retries within the turn instead of suspending.
AfterValidatePositionRetry(s) ==
  IF ~s.meta.position_valid THEN "validate_position"
  ELSE IF ~s.meta.cv_valid THEN "validate_cv"
  ELSE IF s.meta.interview_details = "" THEN "generate_details"
  ELSE "END"

\* Variant that goes on to the CV after a rejected position.
AfterValidatePositionToCv(s) ==
  IF ~s.meta.cv_valid THEN "validate_cv"
  ELSE IF s.meta.interview_details = "" THEN "generate_details"
  ELSE "END"

AfterValidatePosition(s) ==
  IF ~s.meta.position_valid THEN "END"
  ELSE IF ~s.meta.cv_valid THEN "validate_cv"
  ELSE IF s.meta.interview_details = "" THEN "generate_details"
  ELSE "END"

\* Variant that goes on to generation whatever the CV validation said.
AfterValidateCvAlwaysGenerate(s) ==
  IF s.meta.interview_details = "" THEN "generate_details" ELSE "END"

\* Variant that suspends after the CV whatever the outcome.
AfterValidateCvEnd(s) == "END"

AfterValidateCv(s) ==
  IF ~s.meta.cv_valid THEN "END"
  ELSE IF s.meta.interview_details = "" THEN "generate_details"
  ELSE "END"

AfterGenerate == "END"
AfterRefine == "END"

\* Where a handler goes when the graph reaches node id n or END.
Goto(n) == IF n = "END" THEN "save" ELSE n

\* ------------------------------------------------------------ nodes
\* Outcome of one llm.invoke: a completion, or an exception from the client.
GatewayOutcomes(contents) ==
  {[ok |-> TRUE, content |-> c] : c \in contents}
    \cup {[ok |-> FALSE, content |-> CHOOSE c \in contents : TRUE]}

\* Variant that always validates the stored position.
PositionToValidateStored(s) == s.meta.position

\* validate_position: the position it validates.
PositionToValidate(s) ==
  IF ~s.meta.position_valid /\ LastIsHuman(s.messages)
  THEN Last(s.messages).arg
  ELSE s.meta.position

PositionAnswerIsYes(content) == Contains(Upper(Strip(content)), RespYes)

\* Variant whose rejection sends no message to the user.
ValidatePositionUpdateSilent(s, content) ==
  IF PositionAnswerIsYes(content)
  THEN [s EXCEPT !.meta.position_valid = TRUE, !.meta.position = PositionToValidate(s)]
  ELSE [s EXCEPT !.meta.position_valid = FALSE]

\* validate_position: the state after the node's update is applied.
ValidatePositionUpdate(s, content) ==
  LET position == PositionToValidate(s) IN
  IF PositionAnswerIsYes(content)
  THEN [s EXCEPT !.meta.position_valid = TRUE, !.meta.position = position]
  ELSE [s EXCEPT !.meta.position_valid = FALSE,
                 !.messages = Append(@, AIMessage("ask_position", position))]

\* validate_cv: the local cv_text it validates.
CvToValidate(s) ==
  IF ~s.meta.cv_valid /\ LastIsHuman(s.messages)
  THEN CvAppend(s.meta.cv_text, Last(s.messages).arg)
  ELSE s.meta.cv_text

\* Variant of the pre-check that also rejects a text of exactly MinCvLen.
CvTooSparseStrict(t) == CvLen(t) = 0 \/ CvLen(t) <= MinCvLen

CvTooSparse(t) == CvLen(t) = 0 \/ CvLen(t) < MinCvLen

\* validate_cv: the fallback's test on the cleaned content.
FallbackSaysValid(content) ==
  Contains(content, <<TokKey, " ", "true">>) \/ Contains(content, <<TokKey, "true">>)

\* Variant of the fallback that knows only the spelling with the space.
CvDataSpaceOnly(r) ==
  IF r.json = "dict"
  THEN [outcome |-> IF r.flag THEN "valid" ELSE "invalid", details |-> ParsedProfile]
  ELSE IF r.json = "nondict"
  THEN [outcome |-> "raise", details |-> NullDetails]
  ELSE IF Contains(CleanCvContent(r.raw), <<TokKey, " ", "true">>)
  THEN [outcome |-> "valid", details |-> PlaceholderProfile]
  ELSE [outcome |-> "invalid", details |-> NullDetails]

\* validate_cv: json.loads and the fallback; "raise" when data.get fails.
CvData(r) ==
  IF r.json = "dict"
  THEN [outcome |-> IF r.flag THEN "valid" ELSE "invalid", details |-> ParsedProfile]
  ELSE IF r.json = "nondict"
  THEN [outcome |-> "raise", details |-> NullDetails]
  ELSE IF FallbackSaysValid(CleanCvContent(r.raw))
  THEN [outcome |-> "valid", details |-> PlaceholderProfile]
  ELSE [outcome |-> "invalid", details |-> NullDetails]

CvRejected(s, type) ==
  [s EXCEPT !.meta.cv_valid = FALSE,
            !.messages = Append(@, AIMessage(type, ""))]

\* validate_cv: the state after the node's update is applied.
ValidateCvUpdate(s, r) ==
  LET cv_text == CvToValidate(s) IN
  IF CvTooSparse(cv_text) THEN CvRejected(s, "cv_sparse")
  ELSE IF CvData(r).outcome = "valid"
  THEN [s EXCEPT !.meta.cv_valid = TRUE, !.meta.cv_text = cv_text,
                 !.meta.cv_details = CvData(r).details]
  ELSE CvRejected(s, "cv_invalid")

\* Variant that stores the plan and leaves status alone.
GeneratePlanUpdateKeepStatus(s, content) ==
  [s EXCEPT !.meta.interview_details = content,
            !.messages = Append(@, AIMessage("plan", content))]

\* Variant that stores the plan without sending it to the user.
GeneratePlanUpdateNoMessage(s, content) ==
  [s EXCEPT !.meta.interview_details = content,
            !.meta.status = "generated"]

GeneratePlanUpdate(s, content) ==
  [s EXCEPT !.meta.interview_details = content,
            !.meta.status = "generated",
            !.messages = Append(@, AIMessage("plan", content))]

RefinePlanUpdate(s, content) ==
  [s EXCEPT !.meta.interview_details = content,
            !.messages = Append(@, AIMessage("plan", content))]

\* A node's local response is gone once the handler moves on.
ForgetAnswer(p) ==
  /\ cvChecked' = [cvChecked EXCEPT ![p].answer = NoAnswer]
  /\ posAnswer' = [posAnswer EXCEPT ![p] = <<>>]

\* An exception leaves the graph and the endpoint: nothing more runs.
Raise(p, node, cause) ==
  /\ pc' = [pc EXCEPT ![p] = "failed"]
  /\ fail' = [fail EXCEPT ![p] = [node |-> node, cause |-> cause]]
  /\ UNCHANGED <<st, resp>>

Continue(p, s, next) ==
  /\ pc' = [pc EXCEPT ![p] = Goto(next)]
  /\ st' = [st EXCEPT ![p] = s]
  /\ UNCHANGED <<fail, resp>>

\* The answer as recorded: the answers that are the token YES once trimmed
\* and upper-cased are recorded as that token.
Received(content) == IF Upper(Strip(content)) = RespYes THEN RespYes ELSE content

ValidatePosition(p) ==
  /\ pc[p] = "validate_position"
  /\ ran' = [ran EXCEPT ![p] = Append(@, "validate_position")]
  /\ calls' = [calls EXCEPT ![p] = @ + 1]
  /\ \E o \in GatewayOutcomes(PositionResponses) :
       IF o.ok
       THEN /\ LET s == ValidatePositionUpdate(st[p], o.content)
               IN Continue(p, s, AfterValidatePosition(s))
            /\ posAnswer' = [posAnswer EXCEPT ![p] = Received(o.content)]
       ELSE /\ Raise(p, "validate_position", "gateway")
            /\ UNCHANGED posAnswer
  /\ UNCHANGED <<db, kind, conv, cvChecked, got, ops>>
  /\ UNCHANGED outsidePrepare

ValidateCv(p) ==
  /\ pc[p] = "validate_cv"
  /\ ran' = [ran EXCEPT ![p] = Append(@, "validate_cv")]
  /\ LET cv_text == CvToValidate(st[p])
         Checked(called, answer) ==
           cvChecked' = [cvChecked EXCEPT
                           ![p] = [done |-> TRUE, text |-> cv_text,
                                   called |-> called, answer |-> answer]]
     IN IF CvTooSparse(cv_text)
        THEN /\ LET s == ValidateCvUpdate(st[p], NoAnswer)
                IN Continue(p, s, AfterValidateCv(s))
             /\ Checked(FALSE, NoAnswer)
             /\ UNCHANGED calls
        ELSE /\ calls' = [calls EXCEPT ![p] = @ + 1]
             /\ \E o \in GatewayOutcomes(CvResponses) :
                  IF ~o.ok
                  THEN /\ Raise(p, "validate_cv", "gateway")
                       /\ Checked(TRUE, NoAnswer)
                  ELSE /\ Checked(TRUE, IF o.content.json = "error"
                                         THEN o.content ELSE NoAnswer)
                       /\ IF CvData(o.content).outcome = "raise"
                          THEN Raise(p, "validate_cv", "malformed")
                          ELSE LET s == ValidateCvUpdate(st[p], o.content)
                               IN Continue(p, s, AfterValidateCv(s))
  /\ posAnswer' = [posAnswer EXCEPT ![p] = <<>>]
  /\ UNCHANGED <<db, kind, conv, got, ops>>
  /\ UNCHANGED outsidePrepare

\* Variant that swallows the gateway error and stores an empty plan.
GeneratePlanSwallow(p) ==
  /\ pc[p] = "generate_details"
  /\ ran' = [ran EXCEPT ![p] = Append(@, "generate_details")]
  /\ calls' = [calls EXCEPT ![p] = @ + 1]
  /\ \E o \in GatewayOutcomes(Completions) :
       /\ pc' = [pc EXCEPT ![p] = Goto(AfterGenerate)]
       /\ st' = [st EXCEPT ![p] = GeneratePlanUpdate(@, IF o.ok THEN o.content ELSE "")]
       /\ fail' = [fail EXCEPT ![p] = IF o.ok THEN @
                      ELSE [node |-> "generate_details", cause |-> "gateway"]]
       /\ got' = [got EXCEPT ![p] = IF o.ok THEN o.content ELSE @]
       /\ UNCHANGED resp
  /\ ForgetAnswer(p)
  /\ UNCHANGED <<db, kind, conv, ops>>
  /\ UNCHANGED outsidePrepare

GeneratePlan(p) ==
  /\ pc[p] = "generate_details"
  /\ ran' = [ran EXCEPT ![p] = Append(@, "generate_details")]
  /\ IF st[p].meta.cv_details.tag = "null"
     THEN /\ Raise(p, "generate_details", "malformed")
          /\ UNCHANGED <<calls, got>>
     ELSE /\ calls' = [calls EXCEPT ![p] = @ + 1]
          /\ \E o \in GatewayOutcomes(Completions) :
               IF o.ok
               THEN /\ Continue(p, GeneratePlanUpdate(st[p], o.content), AfterGenerate)
                    /\ got' = [got EXCEPT ![p] = o.content]
               ELSE /\ Raise(p, "generate_details", "gateway")
                    /\ UNCHANGED got
  /\ ForgetAnswer(p)
  /\ UNCHANGED <<db, kind, conv, ops>>
  /\ UNCHANGED outsidePrepare

RefinePlan(p) ==
  /\ pc[p] = "refine_plan"
  /\ ran' = [ran EXCEPT ![p] = Append(@, "refine_plan")]
  /\ IF ~LastIsHuman(st[p].messages)
     THEN /\ Continue(p, st[p], AfterRefine)
          /\ UNCHANGED <<calls, got>>
     ELSE /\ calls' = [calls EXCEPT ![p] = @ + 1]
          /\ \E o \in GatewayOutcomes(Completions) :
               IF o.ok
               THEN /\ Continue(p, RefinePlanUpdate(st[p], o.content), AfterRefine)
                    /\ got' = [got EXCEPT ![p] = o.content]
               ELSE /\ Raise(p, "refine_plan", "gateway")
                    /\ UNCHANGED got
  /\ UNCHANGED <<db, kind, conv, cvChecked, posAnswer, ops>>
  /\ UNCHANGED outsidePrepare

\* ------------------------------------------------------------ endpoints
\* result.get(key) for the keys the endpoints copy into metadata: a key the
\* graph never received comes back as None.
ResultMeta(s) ==
  [s.meta EXCEPT !.cv_details = IF @.tag = "absent" THEN NullDetails ELSE @]

\* The Message the endpoints append for the graph's last message, if it is
\* an AIMessage.
LastAiMessages(msgs) ==
  IF msgs # <<>> /\ Last(msgs).role = "ai"
  THEN <<Message("ai", Last(msgs).type, Last(msgs).arg)>>
  ELSE <<>>

ResponseText(msgs, status) ==
  IF msgs # <<>> /\ Last(msgs).role = "ai"
  THEN [status |-> status, type |-> Last(msgs).type, arg |-> Last(msgs).arg]
  ELSE [status |-> status, type |-> "", arg |-> ""]

InitialMeta(cv, position) ==
  [cv_text |-> CvText(cv, <<>>), position |-> position, instruction |-> "instr",
   status |-> "initialized", position_valid |-> FALSE, cv_valid |-> FALSE,
   interview_details |-> "", cv_details |-> AbsentDetails]

\* Idle handlers are interchangeable: a new request goes to the first one.
FirstIdle(p) == pc[p] = "idle" /\ \A q \in Procs : pc[q] = "idle" => p <= q

Begin(p, k, doc, s) ==
  /\ FirstIdle(p)
  /\ ops < MaxOps
  /\ ops' = ops + 1
  /\ kind' = [kind EXCEPT ![p] = k]
  /\ conv' = [conv EXCEPT ![p] = doc]
  /\ st' = [st EXCEPT ![p] = StartNode(s)]
  /\ pc' = [pc EXCEPT ![p] = Router(StartNode(s))]
  /\ UNCHANGED <<ran, calls, fail, cvChecked, resp, got, posAnswer>>

\* POST /start up to the graph's first node: the document is inserted
\* before the graph runs.
StartPreparation(p) ==
  /\ ~db.exists
  /\ \E cv \in CvBases, position \in Positions :
       LET doc == [exists |-> TRUE, meta |-> InitialMeta(cv, position),
                   messages |-> <<>>]
       IN /\ db' = doc
          /\ Begin(p, "start", doc, [meta |-> doc.meta, messages |-> <<>>])
  /\ UNCHANGED outsidePrepare

\* POST /{id}/refine up to the graph's first node.
RefineDetails(p) ==
  /\ db.exists
  /\ \E message \in Msgs :
       Begin(p, "resume", db,
             [meta |-> db.meta, messages |-> <<HumanMessage(message)>>])
  /\ UNCHANGED db
  /\ UNCHANGED outsidePrepare

Finish(p, status) ==
  /\ pc' = [pc EXCEPT ![p] = "done"]
  /\ resp' = [resp EXCEPT ![p] = ResponseText(st[p].messages, status)]
  /\ ForgetAnswer(p)
  /\ UNCHANGED <<kind, conv, st, ran, calls, fail, got, ops>>

\* POST /start after the graph: metadata.update, append, save.
StartSave(p) ==
  /\ pc[p] = "save" /\ kind[p] = "start"
  /\ db' = [exists |-> TRUE, meta |-> ResultMeta(st[p]),
            messages |-> conv[p].messages \o LastAiMessages(st[p].messages)]
  /\ Finish(p, st[p].meta.status)
  /\ UNCHANGED outsidePrepare

\* Variant that appends to the stored message log instead of replacing it.
RefineSaveMerge(p) ==
  /\ pc[p] = "save" /\ kind[p] = "resume"
  /\ db' = [exists |-> TRUE, meta |-> ResultMeta(st[p]),
            messages |-> db.messages
                           \o <<Message("user", "user", st[p].messages[1].arg)>>
                           \o LastAiMessages(st[p].messages)]
  /\ Finish(p, "")
  /\ UNCHANGED outsidePrepare

\* POST /{id}/refine after the graph: metadata.update, append, save.
RefineSave(p) ==
  /\ pc[p] = "save" /\ kind[p] = "resume"
  /\ db' = [exists |-> TRUE, meta |-> ResultMeta(st[p]),
            messages |-> conv[p].messages
                           \o <<Message("user", "user", st[p].messages[1].arg)>>
                           \o LastAiMessages(st[p].messages)]
  /\ Finish(p, "")
  /\ UNCHANGED outsidePrepare

\* POST /{id}/accept: load.
AcceptDetails(p) ==
  /\ FirstIdle(p)
  /\ db.exists
  /\ ops < MaxOps
  /\ ops' = ops + 1
  /\ kind' = [kind EXCEPT ![p] = "accept"]
  /\ conv' = [conv EXCEPT ![p] = db]
  /\ st' = [st EXCEPT ![p] = [meta |-> db.meta, messages |-> <<>>]]
  /\ pc' = [pc EXCEPT ![p] = IF db.meta.interview_details # ""
                              THEN "sanitize" ELSE "accept_save"]
  /\ UNCHANGED <<db, ran, calls, fail, cvChecked, resp, got, posAnswer>>
  /\ UNCHANGED outsidePrepare

\* Variant that makes the sanitizing call and drops its result.
AcceptSanitizeDiscard(p) ==
  /\ pc[p] = "sanitize"
  /\ calls' = [calls EXCEPT ![p] = @ + 1]
  /\ pc' = [pc EXCEPT ![p] = "accept_save"]
  /\ \E o \in GatewayOutcomes(Completions) :
       IF o.ok
       THEN /\ got' = [got EXCEPT ![p] = o.content]
            /\ UNCHANGED fail
       ELSE /\ fail' = [fail EXCEPT ![p] = [node |-> "sanitize", cause |-> "gateway"]]
            /\ UNCHANGED got
  /\ UNCHANGED <<db, kind, conv, st, ran, cvChecked, resp, posAnswer, ops>>
  /\ UNCHANGED outsidePrepare

\* Variant without the try/except around the sanitizing call.
AcceptSanitizeRaise(p) ==
  /\ pc[p] = "sanitize"
  /\ calls' = [calls EXCEPT ![p] = @ + 1]
  /\ \E o \in GatewayOutcomes(Completions) :
       IF o.ok
       THEN /\ st' = [st EXCEPT ![p].meta.interview_details = o.content]
            /\ got' = [got EXCEPT ![p] = o.content]
            /\ pc' = [pc EXCEPT ![p] = "accept_save"]
            /\ UNCHANGED fail
       ELSE /\ fail' = [fail EXCEPT ![p] = [node |-> "sanitize", cause |-> "gateway"]]
            /\ pc' = [pc EXCEPT ![p] = "failed"]
            /\ UNCHANGED <<st, got>>
  /\ UNCHANGED <<db, kind, conv, ran, cvChecked, resp, posAnswer, ops>>
  /\ UNCHANGED outsidePrepare

\* POST /{id}/accept: the sanitizing call inside try/except.
AcceptSanitize(p) ==
  /\ pc[p] = "sanitize"
  /\ calls' = [calls EXCEPT ![p] = @ + 1]
  /\ pc' = [pc EXCEPT ![p] = "accept_save"]
  /\ \E o \in GatewayOutcomes(Completions) :
       IF o.ok
       THEN /\ st' = [st EXCEPT ![p].meta.interview_details = o.content]
            /\ got' = [got EXCEPT ![p] = o.content]
            /\ UNCHANGED fail
       ELSE /\ fail' = [fail EXCEPT ![p] = [node |-> "sanitize", cause |-> "gateway"]]
            /\ UNCHANGED <<st, got>>
  /\ UNCHANGED <<db, kind, conv, ran, cvChecked, resp, posAnswer, ops>>
  /\ UNCHANGED outsidePrepare

\* POST /{id}/accept: status = accepted, save.
AcceptSave(p) ==
  /\ pc[p] = "accept_save"
  /\ db' = [conv[p] EXCEPT !.meta = [st[p].meta EXCEPT !.status = "accepted"]]
  /\ pc' = [pc EXCEPT ![p] = "done"]
  /\ resp' = [resp EXCEPT ![p] = [status |-> "accepted", type |-> "", arg |-> ""]]
  /\ UNCHANGED <<kind, conv, st, ran, calls, fail, cvChecked, got, posAnswer, ops>>
  /\ UNCHANGED outsidePrepare

\* The response (or the error) goes back to the caller; the handler ends.
Return(p) ==
  /\ pc[p] \in {"done", "failed"}
  /\ pc' = [pc EXCEPT ![p] = "idle"]
  /\ kind' = [kind EXCEPT ![p] = "none"]
  /\ conv' = [conv EXCEPT ![p] = NoConv]
  /\ st' = [st EXCEPT ![p] = BlankState]
  /\ ran' = [ran EXCEPT ![p] = <<>>]
  /\ calls' = [calls EXCEPT ![p] = 0]
  /\ fail' = [fail EXCEPT ![p] = NoFail]
  /\ cvChecked' = [cvChecked EXCEPT ![p] = NoChecked]
  /\ resp' = [resp EXCEPT ![p] = NoResp]
  /\ got' = [got EXCEPT ![p] = ""]
  /\ posAnswer' = [posAnswer EXCEPT ![p] = <<>>]
  /\ UNCHANGED <<db, ops>>
  /\ UNCHANGED outsidePrepare

Step(p) ==
  \/ StartPreparation(p)
  \/ RefineDetails(p)
  \/ ValidatePosition(p)
  \/ ValidateCv(p)
  \/ GeneratePlan(p)
  \/ RefinePlan(p)
  \/ StartSave(p)
  \/ RefineSave(p)
  \/ AcceptDetails(p)
  \/ AcceptSanitize(p)
  \/ AcceptSave(p)
  \/ Return(p)

\* Requests may overlap.
Next == \E p \in Procs : Step(p)
Spec == Init /\ [][Next]_vars

\* Requests on the conversation are issued one after the other.
OthersIdle(p) == \A q \in Procs \ {p} : pc[q] = "idle"
StepSeq(p) ==
  \/ OthersIdle(p) /\ StartPreparation(p)
  \/ OthersIdle(p) /\ RefineDetails(p)
  \/ OthersIdle(p) /\ ValidatePosition(p)
  \/ OthersIdle(p) /\ ValidateCv(p)
  \/ OthersIdle(p) /\ GeneratePlan(p)
  \/ OthersIdle(p) /\ RefinePlan(p)
  \/ OthersIdle(p) /\ StartSave(p)
  \/ OthersIdle(p) /\ RefineSave(p)
  \/ OthersIdle(p) /\ AcceptDetails(p)
  \/ OthersIdle(p) /\ AcceptSanitize(p)
  \/ OthersIdle(p) /\ AcceptSave(p)
  \/ OthersIdle(p) /\ Return(p)
NextSeq == \E p \in Procs : StepSeq(p)
SpecSeq == Init /\ [][NextSeq]_vars

\* ------------------------------------------------------------ review endpoints
InitReview ==
  /\ PrepareIdle
  /\ ReviewIdle
  /\ AuthIdle
  /\ ChatIdle
  /\ rconvs \in [ConvIds -> StoredConvs \cup {MissingConv}]

\* Review.find_one(Review.conversation_id == c): the first match, or None.
ReviewsOf(c) == SelectSeq(reviews, LAMBDA r : r.conversation_id = c)
FindOneReview(c) == IF ReviewsOf(c) = <<>> THEN NoReview ELSE Head(ReviewsOf(c))

ReviewRespond(h, code, review, stats) ==
  /\ rpc' = [rpc EXCEPT ![h] = "done"]
  /\ rresp' = [rresp EXCEPT ![h] = [code |-> code, review |-> review, stats |-> stats]]

ReviewBegin(h, request) ==
  /\ rpc[h] = "idle" /\ \A g \in ReviewProcs : rpc[g] = "idle" => h <= g
  /\ rops < MaxReviewOps
  /\ rops' = rops + 1
  /\ rreq' = [rreq EXCEPT ![h] = request]

\* Variant without the check on the transcript.
CreateReviewAnyTranscript(h) ==
  /\ \E caller \in Users, c \in ConvIds, rating \in RatingsGiven :
       /\ ReviewBegin(h, [op |-> "create", caller |-> caller,
                          conversation_id |-> c, overall_rating |-> rating])
       /\ IF ~rconvs[c].exists THEN ReviewRespond(h, 404, NoReview, NoStats)
          ELSE IF rconvs[c].user_id # caller THEN ReviewRespond(h, 403, NoReview, NoStats)
          ELSE /\ rpc' = [rpc EXCEPT ![h] = "find_existing"]
               /\ UNCHANGED rresp
  /\ UNCHANGED <<rconvs, reviews>>
  /\ UNCHANGED outsideReview

\* POST /review/{conversation_id}: Conversation.get and the checks on it.
CreateReview(h) ==
  /\ \E caller \in Users, c \in ConvIds, rating \in RatingsGiven :
       /\ ReviewBegin(h, [op |-> "create", caller |-> caller,
                          conversation_id |-> c, overall_rating |-> rating])
       /\ IF ~rconvs[c].exists THEN ReviewRespond(h, 404, NoReview, NoStats)
          ELSE IF rconvs[c].user_id # caller THEN ReviewRespond(h, 403, NoReview, NoStats)
          ELSE IF rconvs[c].transcript = <<>> THEN ReviewRespond(h, 400, NoReview, NoStats)
          ELSE /\ rpc' = [rpc EXCEPT ![h] = "find_existing"]
               /\ UNCHANGED rresp
  /\ UNCHANGED <<rconvs, reviews>>
  /\ UNCHANGED outsideReview

\* create_review: Review.find_one for an existing review.
FindExisting(h) ==
  /\ rpc[h] = "find_existing"
  /\ IF FindOneReview(rreq[h].conversation_id) # NoReview
     THEN ReviewRespond(h, 409, NoReview, NoStats)
     ELSE /\ rpc' = [rpc EXCEPT ![h] = "insert"]
          /\ UNCHANGED rresp
  /\ UNCHANGED <<rconvs, reviews, rreq, rops>>
  /\ UNCHANGED outsideReview

\* create_review: review.insert() and the 201 response.
InsertReview(h) ==
  /\ rpc[h] = "insert"
  /\ LET review == [conversation_id |-> rreq[h].conversation_id,
                    user_id |-> rreq[h].caller,
                    overall_rating |-> rreq[h].overall_rating]
     IN /\ reviews' = Append(reviews, review)
        /\ ReviewRespond(h, 201, review, NoStats)
  /\ UNCHANGED <<rconvs, rreq, rops>>
  /\ UNCHANGED outsideReview

\* Variant that returns the review to any caller.
GetReviewAnyCaller(h) ==
  /\ \E caller \in Users, c \in ConvIds :
       /\ ReviewBegin(h, [op |-> "get", caller |-> caller,
                          conversation_id |-> c, overall_rating |-> 0])
       /\ LET review == FindOneReview(c)
          IN IF review = NoReview THEN ReviewRespond(h, 404, NoReview, NoStats)
             ELSE ReviewRespond(h, 200, review, NoStats)
  /\ UNCHANGED <<rconvs, reviews>>
  /\ UNCHANGED outsideReview

\* GET /review/{conversation_id}
GetReview(h) ==
  /\ \E caller \in Users, c \in ConvIds :
       /\ ReviewBegin(h, [op |-> "get", caller |-> caller,
                          conversation_id |-> c, overall_rating |-> 0])
       /\ LET review == FindOneReview(c)
          IN IF review = NoReview THEN ReviewRespond(h, 404, NoReview, NoStats)
             ELSE IF review.user_id # caller THEN ReviewRespond(h, 403, NoReview, NoStats)
             ELSE ReviewRespond(h, 200, review, NoStats)
  /\ UNCHANGED <<rconvs, reviews>>
  /\ UNCHANGED outsideReview

\* str(i) for a rating.
RatingKey(i) ==
  CASE i = 1 -> "1" [] i = 2 -> "2" [] i = 3 -> "3" [] i = 4 -> "4" [] i = 5 -> "5"

\* The $group stages of the aggregation pipeline.
CountOf(rs, r) == Cardinality({i \in 1..Len(rs) : rs[i].overall_rating = r})
RECURSIVE SumOfRatings(_)
SumOfRatings(rs) ==
  IF rs = <<>> THEN 0 ELSE Head(rs).overall_rating + SumOfRatings(Tail(rs))
Distribution(rs) ==
  {[id |-> r, count |-> CountOf(rs, r)] : r \in {rs[i].overall_rating : i \in 1..Len(rs)}}

\* get_review_stats: the ReviewStats it returns; average_rating is kept as
\* the sum it is the quotient of (rating_sum / total_reviews).
ReviewStats(rs) ==
  IF rs = <<>>
  THEN [total_reviews |-> 0, rating_sum |-> 0,
        rating_distribution |-> [k \in {RatingKey(5)} |-> 0]]
  ELSE [total_reviews |-> Len(rs), rating_sum |-> SumOfRatings(rs),
        rating_distribution |->
          [k \in {RatingKey(i) : i \in Ratings} |->
             IF \E item \in Distribution(rs) : RatingKey(item.id) = k
             THEN (CHOOSE item \in Distribution(rs) : RatingKey(item.id) = k).count
             ELSE 0]]

\* GET /review/stats
GetReviewStats(h) ==
  /\ ReviewBegin(h, [op |-> "stats", caller |-> "", conversation_id |-> "",
                     overall_rating |-> 0])
  /\ ReviewRespond(h, 200, NoReview, ReviewStats(reviews))
  /\ UNCHANGED <<rconvs, reviews>>
  /\ UNCHANGED outsideReview

\* The response has been sent.
ReviewReturn(h) ==
  /\ rpc[h] = "done"
  /\ rpc' = [rpc EXCEPT ![h] = "idle"]
  /\ rreq' = [rreq EXCEPT ![h] = NoReviewRequest]
  /\ rresp' = [rresp EXCEPT ![h] = NoReviewResponse]
  /\ UNCHANGED <<rconvs, reviews, rops>>
  /\ UNCHANGED outsideReview

ReviewStep(h) ==
  \/ CreateReview(h)
  \/ FindExisting(h)
  \/ InsertReview(h)
  \/ GetReview(h)
  \/ GetReviewStats(h)
  \/ ReviewReturn(h)

\* Review requests may overlap.
NextReview == \E h \in ReviewProcs : ReviewStep(h)
SpecReview == InitReview /\ [][NextReview]_vars

\* ------------------------------------------------------------ auth endpoints
InitAuth ==
  /\ PrepareIdle
  /\ ReviewIdle
  /\ rconvs = [c \in ConvIds |-> MissingConv]
  /\ AuthIdle
  /\ ChatIdle

\* Tokens a caller can send: one it was given, or a string that is no JWT.
Presentable == issued \cup {BadToken}
\* is_token_blacklisted / TokenBlacklist.find_one(token_jti == jti)
IsBlacklisted(jti) == \E i \in 1..Len(blacklist) : blacklist[i] = jti

AuthRespond(h, code, access, refresh, message) ==
  /\ apc' = [apc EXCEPT ![h] = "done"]
  /\ aresp' = [aresp EXCEPT ![h] = [code |-> code, access_token |-> access,
                                    refresh_token |-> refresh, message |-> message]]

\* raise HTTPException(status_code, detail), or an exception nobody catches.
AuthFail(h, code, detail) == AuthRespond(h, code, NoToken, NoToken, detail)

AuthBegin(h, request) ==
  /\ apc[h] = "idle" /\ \A g \in AuthProcs : apc[g] = "idle" => h <= g
  /\ aops < MaxAuthOps
  /\ aops' = aops + 1
  /\ areq' = [areq EXCEPT ![h] = request]

\* create_access_token and create_refresh_token for the user, and the Token
\* response.
IssueTokens(h, sub) ==
  LET access == AccessToken(sub, nextId)
      refresh == RefreshToken(sub, nextId + 1)
  IN /\ issued' = issued \cup {access, refresh}
     /\ nextId' = nextId + 2
     /\ AuthRespond(h, 200, access, refresh, "bearer")

\* POST /auth/login
Login(h) ==
  /\ \E email \in Emails, password_ok \in BOOLEAN :
       /\ AuthBegin(h, [op |-> "login", token |-> NoToken, email |-> email,
                       reset_token |-> 0, new_password |-> ""])
       /\ LET user == AccountOf(email)
          IN IF user = NoAccount \/ ~password_ok \/ ~user.is_active
             THEN /\ AuthFail(h, 400, IF user = NoAccount \/ ~password_ok
                                      THEN "Incorrect email or password"
                                      ELSE "Inactive user")
                  /\ UNCHANGED <<issued, nextId>>
             ELSE IssueTokens(h, user.id)
  /\ UNCHANGED <<blacklist, resets>>
  /\ UNCHANGED <<hashed, outsideAuth>>

\* POST /auth/refresh: decode, type check and blacklist check.
RefreshCheck(h) ==
  /\ \E token \in Presentable :
       /\ AuthBegin(h, [op |-> "refresh", token |-> token, email |-> "",
                       reset_token |-> 0, new_password |-> ""])
       /\ IF token = BadToken THEN AuthFail(h, 403, NotValidated)
          ELSE IF token.type # "refresh" THEN AuthFail(h, 401, WrongType)
          ELSE IF IsBlacklisted(token.jti) THEN AuthFail(h, 401, Revoked)
          ELSE /\ apc' = [apc EXCEPT ![h] = "refresh_redeem"]
               /\ UNCHANGED aresp
  /\ UNCHANGED <<blacklist, issued, resets, nextId>>
  /\ UNCHANGED <<hashed, outsideAuth>>

\* Variant whose blacklist has no unique index on token_jti.
RefreshRedeemNoIndex(h) ==
  /\ apc[h] = "refresh_redeem"
  /\ blacklist' = Append(blacklist, areq[h].token.jti)
  /\ IssueTokens(h, areq[h].token.sub)
  /\ UNCHANGED <<resets, areq, aops>>
  /\ UNCHANGED <<hashed, outsideAuth>>

\* refresh_token: User.get, the blacklist entry for the old token (the
\* unique index rejects a second entry for a jti), and the new tokens.
RefreshRedeem(h) ==
  /\ apc[h] = "refresh_redeem"
  /\ LET user == AccountById(areq[h].token.sub)
     IN IF user = NoAccount
        THEN AuthFail(h, 404, "User not found") /\ UNCHANGED <<blacklist, issued, nextId>>
        ELSE IF ~user.is_active
        THEN AuthFail(h, 400, "Inactive user") /\ UNCHANGED <<blacklist, issued, nextId>>
        ELSE IF IsBlacklisted(areq[h].token.jti)
        THEN AuthFail(h, 500, DuplicateKey) /\ UNCHANGED <<blacklist, issued, nextId>>
        ELSE /\ blacklist' = Append(blacklist, areq[h].token.jti)
             /\ IssueTokens(h, user.id)
  /\ UNCHANGED <<resets, areq, aops>>
  /\ UNCHANGED <<hashed, outsideAuth>>

\* POST /auth/logout: decode and the lookup of an existing entry.
LogoutCheck(h) ==
  /\ \E token \in Presentable :
       /\ AuthBegin(h, [op |-> "logout", token |-> token, email |-> "",
                       reset_token |-> 0, new_password |-> ""])
       /\ IF token = BadToken THEN AuthFail(h, 403, NotValidated)
          ELSE IF IsBlacklisted(token.jti)
          THEN AuthRespond(h, 200, NoToken, NoToken, LoggedOut)
          ELSE /\ apc' = [apc EXCEPT ![h] = "logout_blacklist"]
               /\ UNCHANGED aresp
  /\ UNCHANGED <<blacklist, issued, resets, nextId>>
  /\ UNCHANGED <<hashed, outsideAuth>>

\* logout: blacklist_entry.create() and the answer.
LogoutBlacklist(h) ==
  /\ apc[h] = "logout_blacklist"
  /\ IF IsBlacklisted(areq[h].token.jti)
     THEN AuthFail(h, 500, DuplicateKey) /\ UNCHANGED blacklist
     ELSE /\ blacklist' = Append(blacklist, areq[h].token.jti)
          /\ AuthRespond(h, 200, NoToken, NoToken, LoggedOut)
  /\ UNCHANGED <<issued, resets, nextId, areq, aops>>
  /\ UNCHANGED <<hashed, outsideAuth>>

\* Variant that does not consult the blacklist.
GetCurrentUserNoBlacklist(h) ==
  /\ \E token \in Presentable :
       /\ AuthBegin(h, [op |-> "me", token |-> token, email |-> "",
                       reset_token |-> 0, new_password |-> ""])
       /\ IF token = BadToken THEN AuthFail(h, 403, NotValidated)
          ELSE IF token.type # "access" THEN AuthFail(h, 401, WrongType)
          ELSE AuthRespond(h, 200, NoToken, NoToken, token.sub)
  /\ UNCHANGED <<blacklist, issued, resets, nextId>>
  /\ UNCHANGED <<hashed, outsideAuth>>

\* GET /auth/me: get_current_user; the message is the user returned.
GetCurrentUser(h) ==
  /\ \E token \in Presentable :
       /\ AuthBegin(h, [op |-> "me", token |-> token, email |-> "",
                       reset_token |-> 0, new_password |-> ""])
       /\ IF token = BadToken THEN AuthFail(h, 403, NotValidated)
          ELSE IF token.type # "access" THEN AuthFail(h, 401, WrongType)
          ELSE IF IsBlacklisted(token.jti) THEN AuthFail(h, 401, Revoked)
          ELSE IF AccountById(token.sub) = NoAccount THEN AuthFail(h, 404, "User not found")
          ELSE IF ~AccountById(token.sub).is_active THEN AuthFail(h, 400, "Inactive user")
          ELSE AuthRespond(h, 200, NoToken, NoToken, token.sub)
  /\ UNCHANGED <<blacklist, issued, resets, nextId>>
  /\ UNCHANGED <<hashed, outsideAuth>>

\* Variant that tells the caller when the email is unknown.
ForgetPasswordTelling(h) ==
  /\ \E email \in Emails :
       /\ AuthBegin(h, [op |-> "forget", token |-> NoToken, email |-> email,
                       reset_token |-> 0, new_password |-> ""])
       /\ IF AccountOf(email) = NoAccount
          THEN AuthFail(h, 404, "User not found")
          ELSE /\ apc' = [apc EXCEPT ![h] = "forget_invalidate"]
               /\ UNCHANGED aresp
  /\ UNCHANGED <<blacklist, issued, resets, nextId>>
  /\ UNCHANGED <<hashed, outsideAuth>>

\* POST /auth/forget: User.find_one by email.
ForgetPassword(h) ==
  /\ \E email \in Emails :
       /\ AuthBegin(h, [op |-> "forget", token |-> NoToken, email |-> email,
                       reset_token |-> 0, new_password |-> ""])
       /\ IF AccountOf(email) = NoAccount
          THEN AuthRespond(h, 200, NoToken, NoToken, ResetLinkSent)
          ELSE /\ apc' = [apc EXCEPT ![h] = "forget_invalidate"]
               /\ UNCHANGED aresp
  /\ UNCHANGED <<blacklist, issued, resets, nextId>>
  /\ UNCHANGED <<hashed, outsideAuth>>

\* forget_password: mark the user's unused reset tokens as used.
ForgetInvalidate(h) ==
  /\ apc[h] = "forget_invalidate"
  /\ resets' = [i \in 1..Len(resets) |->
                  IF resets[i].user_id = AccountOf(areq[h].email).id
                  THEN [resets[i] EXCEPT !.used = TRUE] ELSE resets[i]]
  /\ apc' = [apc EXCEPT ![h] = "forget_create"]
  /\ UNCHANGED <<blacklist, issued, nextId, areq, aresp, aops>>
  /\ UNCHANGED <<hashed, outsideAuth>>

\* forget_password: store the new reset token and answer.
ForgetCreate(h) ==
  /\ apc[h] = "forget_create"
  /\ resets' = Append(resets, [user_id |-> AccountOf(areq[h].email).id,
                               token |-> nextId, used |-> FALSE,
                               expired |-> FALSE])
  /\ nextId' = nextId + 1
  /\ AuthRespond(h, 200, NoToken, NoToken, ResetLinkSent)
  /\ UNCHANGED <<blacklist, issued, areq, aops>>
  /\ UNCHANGED <<hashed, outsideAuth>>

\* The response has been sent.
AuthReturn(h) ==
  /\ apc[h] = "done"
  /\ apc' = [apc EXCEPT ![h] = "idle"]
  /\ areq' = [areq EXCEPT ![h] = NoAuthRequest]
  /\ aresp' = [aresp EXCEPT ![h] = NoAuthResponse]
  /\ UNCHANGED <<blacklist, issued, resets, nextId, aops>>
  /\ UNCHANGED <<hashed, outsideAuth>>

AuthStep(h) ==
  \/ Login(h)
  \/ RefreshCheck(h)
  \/ RefreshRedeem(h)
  \/ LogoutCheck(h)
  \/ LogoutBlacklist(h)
  \/ GetCurrentUser(h)
  \/ ForgetPassword(h)
  \/ ForgetInvalidate(h)
  \/ ForgetCreate(h)
  \/ AuthReturn(h)

\* Auth requests may overlap.
NextAuth == \E h \in AuthProcs : AuthStep(h)
SpecAuth == InitAuth /\ [][NextAuth]_vars

\* ------------------------------------------------------------ password reset
\* Time passes the exp of the oldest reset token that has not expired yet
\* (exp is the time of the request plus a fixed delay).
ResetTokenExpires ==
  /\ \E i \in 1..Len(resets) :
       /\ ~resets[i].expired
       /\ \A j \in 1..(i - 1) : resets[j].expired
       /\ resets' = [resets EXCEPT ![i].expired = TRUE]
  /\ UNCHANGED <<blacklist, issued, nextId, hashed, apc, areq, aresp, aops>>
  /\ UNCHANGED outsideAuth

\* Tokens a caller can send to /auth/reset-password: one that was created,
\* or a string that is no token.
ResetTokens == {resets[i].token : i \in 1..Len(resets)} \cup {0}
\* PasswordReset.find_one(token == K, used == False): its position, or 0.
FindUnusedReset(K) ==
  IF \E i \in 1..Len(resets) : resets[i].token = K /\ ~resets[i].used
  THEN CHOOSE i \in 1..Len(resets) : resets[i].token = K /\ ~resets[i].used
  ELSE 0
\* The document of the token, which reset.save() writes to.
ResetOf(K) == CHOOSE i \in 1..Len(resets) : resets[i].token = K

\* POST /auth/reset-password: find_one for the unused token and the check
\* of its expiry.
ResetPassword(h) ==
  /\ \E K \in ResetTokens, password \in NewPasswords :
       /\ AuthBegin(h, [op |-> "reset", token |-> NoToken, email |-> "",
                        reset_token |-> K, new_password |-> password])
       /\ LET i == FindUnusedReset(K)
          IN IF i = 0 THEN AuthFail(h, 400, InvalidResetToken)
             ELSE /\ apc' = [apc EXCEPT ![h] = IF resets[i].expired
                                               THEN "reset_expire"
                                               ELSE "reset_save_password"]
                  /\ UNCHANGED aresp
  /\ UNCHANGED <<blacklist, issued, resets, nextId, hashed>>
  /\ UNCHANGED outsideAuth

\* reset_password: the expired token is marked used and the call fails.
ResetExpire(h) ==
  /\ apc[h] = "reset_expire"
  /\ resets' = [resets EXCEPT ![ResetOf(areq[h].reset_token)].used = TRUE]
  /\ AuthFail(h, 400, ExpiredResetToken)
  /\ UNCHANGED <<blacklist, issued, nextId, hashed, areq, aops>>
  /\ UNCHANGED outsideAuth

\* reset_password: User.get and user.save() with the new hashed_password.
ResetSavePassword(h) ==
  /\ apc[h] = "reset_save_password"
  /\ LET user == AccountById(resets[ResetOf(areq[h].reset_token)].user_id)
     IN IF user = NoAccount
        THEN AuthFail(h, 404, "User not found") /\ UNCHANGED hashed
        ELSE /\ hashed' = [hashed EXCEPT
                             ![user.id] = GetPasswordHash(areq[h].new_password)]
             /\ apc' = [apc EXCEPT ![h] = "reset_mark_used"]
             /\ UNCHANGED aresp
  /\ UNCHANGED <<blacklist, issued, resets, nextId, areq, aops>>
  /\ UNCHANGED outsideAuth

\* reset_password: the token is marked used and the call succeeds.
ResetMarkUsed(h) ==
  /\ apc[h] = "reset_mark_used"
  /\ resets' = [resets EXCEPT ![ResetOf(areq[h].reset_token)].used = TRUE]
  /\ AuthRespond(h, 200, NoToken, NoToken, PasswordWasReset)
  /\ UNCHANGED <<blacklist, issued, nextId, hashed, areq, aops>>
  /\ UNCHANGED outsideAuth

ResetStep(h) ==
  \/ ForgetPassword(h)
  \/ ForgetInvalidate(h)
  \/ ForgetCreate(h)
  \/ ResetPassword(h)
  \/ ResetExpire(h)
  \/ ResetSavePassword(h)
  \/ ResetMarkUsed(h)
  \/ AuthReturn(h)

\* Requests for a reset and uses of reset tokens may overlap.
NextReset == ResetTokenExpires \/ \E h \in AuthProcs : ResetStep(h)
SpecReset == InitAuth /\ [][NextReset]_vars

\* ------------------------------------------------------------ chat endpoints
InitChat ==
  /\ PrepareIdle
  /\ ReviewIdle
  /\ rconvs = [c \in ConvIds |-> MissingConv]
  /\ AuthIdle
  /\ ChatIdle

\* What a websocket receives: a chat message of the conversation, or the
\* error text.
Sent(s, via) == [socket |-> s, conversation_id |-> ChatConv, via |-> via]

\* ConnectionManager.broadcast: the websockets send_text is called on. An
\* empty or missing limit_to_users selects every connection.
BroadcastTargets(limit_to_users) ==
  IF limit_to_users # {}
  THEN {t \in active : t.user_id \in limit_to_users}
  ELSE active

\* websocket_endpoint: manager.connect.
WsConnect(s) ==
  /\ wpc[s] = "closed"
  /\ cops < MaxChatOps
  /\ cops' = cops + 1
  /\ active' = active \cup {s}
  /\ wpc' = [wpc EXCEPT ![s] = "get"]
  /\ UNCHANGED <<chat, wdoc, mpc, mdoc, delivered>>
  /\ UNCHANGED outsideChat

\* websocket_endpoint: Conversation.get and the user appended to the
\* participants of the loaded document.
WsGet(s) ==
  /\ wpc[s] = "get"
  /\ IF s.conversation_id = ChatConv /\ s.user_id \notin chat.participants
     THEN /\ wdoc' = [wdoc EXCEPT ![s] = [chat EXCEPT !.participants = @ \cup {s.user_id}]]
          /\ wpc' = [wpc EXCEPT ![s] = "join_save"]
     ELSE /\ wpc' = [wpc EXCEPT ![s] = "open"]
          /\ UNCHANGED wdoc
  /\ UNCHANGED <<chat, active, mpc, mdoc, delivered, cops>>
  /\ UNCHANGED outsideChat

\* websocket_endpoint: conversation.save() of the loaded document.
WsJoinSave(s) ==
  /\ wpc[s] = "join_save"
  /\ chat' = wdoc[s]
  /\ wpc' = [wpc EXCEPT ![s] = "open"]
  /\ UNCHANGED <<active, wdoc, mpc, mdoc, delivered, cops>>
  /\ UNCHANGED outsideChat

\* websocket_endpoint: receive_text and Conversation.get; the message is
\* appended to the loaded document, or the error text is sent back.
WsReceive(s) ==
  /\ wpc[s] = "open"
  /\ cops < MaxChatOps
  /\ cops' = cops + 1
  /\ IF s.conversation_id = ChatConv
     THEN /\ wdoc' = [wdoc EXCEPT ![s] = [chat EXCEPT !.messages = Append(@, "user")]]
          /\ wpc' = [wpc EXCEPT ![s] = "msg_save"]
          /\ UNCHANGED delivered
     ELSE /\ delivered' = delivered \cup {Sent(s, "error")}
          /\ UNCHANGED <<wdoc, wpc>>
  /\ UNCHANGED <<chat, active, mpc, mdoc>>
  /\ UNCHANGED outsideChat

\* websocket_endpoint: conversation.save() with the new message.
WsMessageSave(s) ==
  /\ wpc[s] = "msg_save"
  /\ chat' = wdoc[s]
  /\ wpc' = [wpc EXCEPT ![s] = "broadcast"]
  /\ UNCHANGED <<active, wdoc, mpc, mdoc, delivered, cops>>
  /\ UNCHANGED outsideChat

\* websocket_endpoint: manager.broadcast limited to the participants of the
\* loaded document.
WsBroadcast(s) ==
  /\ wpc[s] = "broadcast"
  /\ delivered' = delivered \cup
       {Sent(t, "websocket") : t \in BroadcastTargets(wdoc[s].participants)}
  /\ wpc' = [wpc EXCEPT ![s] = "open"]
  /\ UNCHANGED <<chat, active, wdoc, mpc, mdoc, cops>>
  /\ UNCHANGED outsideChat

\* websocket_endpoint: WebSocketDisconnect and manager.disconnect.
WsDisconnect(s) ==
  /\ wpc[s] = "open"
  /\ active' = active \ {s}
  /\ wpc' = [wpc EXCEPT ![s] = "closed"]
  /\ UNCHANGED <<chat, wdoc, mpc, mdoc, delivered, cops>>
  /\ UNCHANGED outsideChat

\* POST /conversations/{id}/messages: Conversation.get, 404 or the message
\* appended to the loaded document.
CreateMessage ==
  /\ mpc = "idle"
  /\ cops < MaxChatOps
  /\ cops' = cops + 1
  /\ \E c \in {ChatConv, NoChatConv}, sender_type \in {"user", "ai"} :
       IF c = ChatConv
       THEN /\ mdoc' = [chat EXCEPT !.messages = Append(@, sender_type)]
            /\ mpc' = "save"
       ELSE UNCHANGED <<mdoc, mpc>>
  /\ UNCHANGED <<chat, active, wpc, wdoc, delivered>>
  /\ UNCHANGED outsideChat

\* create_message: conversation.save().
CreateMessageSave ==
  /\ mpc = "save"
  /\ chat' = mdoc
  /\ mpc' = "broadcast"
  /\ UNCHANGED <<active, wpc, wdoc, mdoc, delivered, cops>>
  /\ UNCHANGED outsideChat

\* create_message: manager.broadcast without limit_to_users.
CreateMessageBroadcast ==
  /\ mpc = "broadcast"
  /\ delivered' = delivered \cup {Sent(t, "create_message") : t \in BroadcastTargets({})}
  /\ mpc' = "idle"
  /\ UNCHANGED <<chat, active, wpc, wdoc, mdoc, cops>>
  /\ UNCHANGED outsideChat

WsStep(s) ==
  \/ WsConnect(s)
  \/ WsGet(s)
  \/ WsJoinSave(s)
  \/ WsReceive(s)
  \/ WsMessageSave(s)
  \/ WsBroadcast(s)
  \/ WsDisconnect(s)

NextChat ==
  \/ \E s \in Sockets : WsStep(s)
  \/ CreateMessage
  \/ CreateMessageSave
  \/ CreateMessageBroadcast
SpecChat == InitChat /\ [][NextChat]_vars

\* ------------------------------------------------------------ claims
Statuses == {"initialized", "generated", "refining", "accepted"}
IsTurn(p) == kind[p] \in {"start", "resume"}
Validators == {"validate_position", "validate_cv"}
Planners == {"generate_details", "refine_plan"}
Count(seq, S) == Cardinality({i \in 1..Len(seq) : seq[i] \in S})
\* The node the router chose for handler p's turn.
FirstNode(p) == IF ran[p] # <<>> THEN ran[p][1] ELSE pc[p]
\* The state the turn of handler p started from.
Loaded(p) == [meta |-> conv[p].meta, messages |-> <<>>]
BothValid(m) == m.position_valid /\ m.cv_valid

\* Every combination of the fields the router reads.
RouterInputs ==
  { [meta |-> [BlankMeta EXCEPT !.position_valid = pv, !.cv_valid = cv,
                                !.status = s, !.interview_details = d],
     messages |-> <<>>] :
      pv \in BOOLEAN, cv \in BOOLEAN, s \in Statuses, d \in Completions }

\* The decision table of the router: each node is chosen in exactly its row.
DecisionTable(s, n) ==
  LET pv == s.meta.position_valid
      cv == s.meta.cv_valid
      plan == s.meta.status = "generated" \/ s.meta.interview_details # ""
  IN /\ n \in NodeIds
     /\ (n = "validate_position") <=> ~pv
     /\ (n = "validate_cv") <=> (pv /\ ~cv)
     /\ (n = "refine_plan") <=> (pv /\ cv /\ plan)
     /\ (n = "generate_details") <=> (pv /\ cv /\ ~plan)

\* C1: router is total and deterministic: for every combination of
\* position_valid, cv_valid, status and empty/non-empty interview_details it
\* yields exactly one node, first match wins (validate_position, validate_cv,
\* refine_plan, generate_details), and every turn starts at that node.
C1_RouterDecisionTable ==
  /\ \A s \in RouterInputs : DecisionTable(s, Router(s))
  /\ \A p \in Procs : IsTurn(p) => DecisionTable(Loaded(p), FirstNode(p))

\* A resume turn routed to refine_plan by status = generated alone.
C1_Witness ==
  \E p \in Procs :
    /\ kind[p] = "resume" /\ FirstNode(p) = "refine_plan"
    /\ conv[p].meta.status = "generated" /\ conv[p].meta.interview_details = ""

\* C2: with requests issued one after the other, once the stored state has
\* position_valid and cv_valid both true, both stay true in every later
\* stored state.
C2_FlagsMonotonic ==
  [][BothValid(db.meta) => BothValid(db'.meta)]_vars

\* A resume turn that started from a both-valid state has saved.
C2_Witness ==
  \E p \in Procs :
    /\ kind[p] = "resume" /\ pc[p] = "done"
    /\ BothValid(conv[p].meta) /\ BothValid(db.meta)

\* C3 as stated: a turn issues at most two gateway calls, and at most one
\* validator runs in a turn that reaches generation.
C3_AtMostTwoCalls ==
  \A p \in Procs :
    IsTurn(p) =>
      /\ calls[p] <= 2
      /\ ("generate_details" \in {ran[p][i] : i \in 1..Len(ran[p])}
            => Count(ran[p], Validators) <= 1)

\* C3 amended: a turn issues at most three gateway calls: each validator
\* runs at most once (position, then CV) and at most one generation or
\* refinement follows.
C3_AtMostThreeCalls ==
  \A p \in Procs :
    IsTurn(p) =>
      /\ calls[p] <= 3
      /\ Len(ran[p]) <= 3
      /\ Count(ran[p], {"validate_position"}) <= 1
      /\ Count(ran[p], {"validate_cv"}) <= 1
      /\ Count(ran[p], Planners) <= 1

\* A turn that ran both validators and the generator, three calls.
C3_Witness ==
  \E p \in Procs :
    /\ calls[p] = 3
    /\ ran[p] = <<"validate_position", "validate_cv", "generate_details">>

\* C4: in a resume turn where validate_position took the user's message as
\* the position and validate_cv ran next, validate_cv examines the stored
\* cv_text without that message and cv_text is not extended.
C4_MessageNotConsumedTwice ==
  \A p \in Procs :
    (/\ kind[p] = "resume"
     /\ Len(ran[p]) >= 2
     /\ ran[p][1] = "validate_position" /\ ran[p][2] = "validate_cv")
    => /\ cvChecked[p].text = conv[p].meta.cv_text
       /\ st[p].meta.cv_text = conv[p].meta.cv_text

\* C5: a gateway error raised in validate_position or validate_cv never
\* ends the turn with an exception.
C5_ValidatorErrorsCaught ==
  \A p \in Procs :
    ~(pc[p] = "failed" /\ fail[p].node \in Validators /\ fail[p].cause = "gateway")

\* C6: when the gateway call of generate_plan or refine_plan fails, the turn
\* ends with the error (no response, nothing saved): after a resume the
\* stored document is the one the turn loaded, after a start no plan is
\* stored.
C6_PlannerErrorLeavesPlan ==
  \A p \in Procs :
    (IsTurn(p) /\ fail[p].node \in Planners /\ fail[p].cause = "gateway")
    => /\ pc[p] = "failed"
       /\ resp[p] = NoResp
       /\ db.meta.interview_details = conv[p].meta.interview_details
       /\ kind[p] = "resume" => db = conv[p]

\* A refinement of a stored plan failed at the gateway.
C6_Witness ==
  \E p \in Procs :
    /\ kind[p] = "resume" /\ pc[p] = "failed"
    /\ fail[p] = [node |-> "refine_plan", cause |-> "gateway"]
    /\ db.meta.interview_details # ""

\* C7: a failed turn commits nothing: the stored conversation is what it was
\* before the turn, and a failed start leaves no conversation record.
C7_TurnAtomic ==
  \A p \in Procs :
    (IsTurn(p) /\ pc[p] = "failed")
    => db = (IF kind[p] = "start" THEN NoConv ELSE conv[p])

\* The document a resume handler writes: what it loaded plus its own turn.
SavedByResume(p) ==
  [exists |-> TRUE, meta |-> ResultMeta(st[p]),
   messages |-> conv[p].messages
                  \o <<Message("user", "user", st[p].messages[1].arg)>>
                  \o LastAiMessages(st[p].messages)]

\* C8: when two resume calls that read the same stored document have both
\* saved, the stored document is the one written by one of them alone: its
\* state and its two messages on top of the document both had read; the
\* other call's update is gone.
C8_LastWriteWins ==
  \A p, q \in Procs :
    (/\ p # q
     /\ kind[p] = "resume" /\ kind[q] = "resume"
     /\ pc[p] = "done" /\ pc[q] = "done"
     /\ conv[p] = conv[q])
    => /\ db \in {SavedByResume(p), SavedByResume(q)}
       /\ Len(db.messages) = Len(conv[p].messages) + 2

\* Two overlapping resume calls with different messages and results: only
\* the second saver's turn is stored.
C8_Witness ==
  \E p, q \in Procs :
    /\ p # q
    /\ kind[p] = "resume" /\ kind[q] = "resume"
    /\ pc[p] = "done" /\ pc[q] = "done"
    /\ conv[p] = conv[q]
    /\ st[p].messages[1].arg # st[q].messages[1].arg
    /\ st[p].meta # st[q].meta
    /\ db = SavedByResume(q) /\ db # SavedByResume(p)

\* C9: with requests issued one after the other, a resume call on an
\* accepted conversation leaves the stored interview_details unchanged.
C9_AcceptedPlanReadOnly ==
  \A p \in Procs :
    (kind[p] = "resume" /\ pc[p] = "done" /\ conv[p].meta.status = "accepted")
    => db.meta.interview_details = conv[p].meta.interview_details

\* C10: a stored status of generated or refining implies a non-empty
\* interview_details.
C10_PlanStatusImpliesDetails ==
  db.exists =>
    (db.meta.status \in {"generated", "refining"}
       => db.meta.interview_details # "")

\* C11: in every stored state a non-empty interview_details implies
\* position_valid and cv_valid: only a node that ran with both flags true
\* writes the plan.
C11_PlanImpliesBothValid ==
  /\ db.meta.interview_details # "" => BothValid(db.meta)
  /\ \A p \in Procs :
       IsTurn(p) /\ st[p].meta.interview_details # "" => BothValid(st[p].meta)

\* A plan is stored.
C11_Witness ==
  db.meta.interview_details # "" /\ db.meta.status = "generated"

AcceptDone(p) == kind[p] = "accept" /\ pc[p] = "done"
SanitizerSucceeded(p) == calls[p] = 1 /\ fail[p] = NoFail

\* C12 as stated: once accept has stored status = accepted, the sanitizing
\* call was made on the plan and its result is the stored interview_details.
C12_AcceptedIsSanitized ==
  \A p \in Procs :
    AcceptDone(p) =>
      /\ db.meta.status = "accepted"
      /\ SanitizerSucceeded(p)
      /\ db.meta.interview_details = got[p]

\* C12 amended: when accept has saved, status is accepted; the stored
\* interview_details is the sanitizer's output when the sanitizing call was
\* made and succeeded, and the text stored before when the plan was empty
\* (no call is made) or the call failed.
C12_AcceptStoresSanitizerOutput ==
  \A p \in Procs :
    AcceptDone(p) =>
      /\ db.meta.status = "accepted"
      /\ calls[p] = (IF conv[p].meta.interview_details # "" THEN 1 ELSE 0)
      /\ db.meta.interview_details =
           (IF SanitizerSucceeded(p) THEN got[p]
            ELSE conv[p].meta.interview_details)

\* An accept whose sanitizing call returned a text that differs from the plan.
C12_Witness ==
  \E p \in Procs :
    /\ AcceptDone(p) /\ SanitizerSucceeded(p)
    /\ got[p] # conv[p].meta.interview_details
    /\ db.meta.interview_details = got[p]

\* C13: a failing sanitizing call does not fail the accept: the handler goes
\* on to save, status becomes accepted, interview_details keeps the text
\* stored before, and the caller gets {"status": "accepted"}.
C13_SanitizerFailureStillAccepts ==
  \A p \in Procs :
    fail[p].node = "sanitize" =>
      /\ kind[p] = "accept"
      /\ pc[p] \in {"accept_save", "done"}
      /\ pc[p] = "done" =>
           /\ db.meta.status = "accepted"
           /\ db.meta.interview_details = conv[p].meta.interview_details
           /\ resp[p] = [status |-> "accepted", type |-> "", arg |-> ""]

\* An accept that saved after its sanitizing call failed.
C13_Witness ==
  \E p \in Procs :
    /\ AcceptDone(p) /\ fail[p].node = "sanitize"
    /\ db.meta.status = "accepted" /\ db.meta.interview_details # ""

TurnEnded(p) == pc[p] \in {"save", "done"}

\* C14: a turn that begins with position_valid = true never executes
\* validate_position: the node is neither pending nor among the nodes run,
\* and position stays what the turn loaded.
C14_ValidPositionNotRevalidated ==
  \A p \in Procs :
    IsTurn(p) /\ conv[p].meta.position_valid =>
      /\ pc[p] # "validate_position"
      /\ Count(ran[p], {"validate_position"}) = 0
      /\ fail[p].node # "validate_position"
      /\ st[p].meta.position = conv[p].meta.position
      /\ st[p].meta.position_valid

\* A turn that began with a valid position, made a gateway call and saved.
C14_Witness ==
  \E p \in Procs :
    /\ IsTurn(p) /\ conv[p].meta.position_valid
    /\ pc[p] = "done" /\ calls[p] > 0

ReadyToGenerate(p) ==
  /\ kind[p] = "resume"
  /\ BothValid(conv[p].meta)
  /\ conv[p].meta.interview_details = ""
  /\ conv[p].meta.status # "generated"

\* C15: a resume that starts from position_valid, cv_valid, an empty
\* interview_details and a status other than generated runs generate_plan
\* only, makes exactly one gateway call, and ends with status = generated.
C15_GenerationOnce ==
  \A p \in Procs :
    ReadyToGenerate(p) =>
      /\ FirstNode(p) = "generate_details"
      /\ calls[p] = (IF ran[p] = <<>> THEN 0 ELSE 1)
      /\ TurnEnded(p) =>
           /\ ran[p] = <<"generate_details">>
           /\ st[p].meta.status = "generated"
      /\ pc[p] = "done" => db.meta.status = "generated"

\* Such a resume has saved.
C15_Witness ==
  \E p \in Procs :
    /\ ReadyToGenerate(p) /\ pc[p] = "done"
    /\ calls[p] = 1 /\ db.meta.status = "generated"

PositionRejected(p) ==
  /\ IsTurn(p)
  /\ ran[p] # <<>> /\ ran[p][1] = "validate_position"
  /\ fail[p] = NoFail
  /\ ~st[p].meta.position_valid

\* C16: when validate_position ends with position_valid = false the turn
\* suspends: no other node runs, cv_valid and cv_text are what the turn
\* loaded, exactly one gateway call was made, and the turn's assistant
\* message is the request for a valid job title.
C16_RejectedPositionSuspends ==
  \A p \in Procs :
    PositionRejected(p) =>
      /\ TurnEnded(p)
      /\ ran[p] = <<"validate_position">>
      /\ ~cvChecked[p].done
      /\ calls[p] = 1
      /\ st[p].meta.cv_valid = conv[p].meta.cv_valid
      /\ st[p].meta.cv_text = conv[p].meta.cv_text
      /\ st[p].meta.interview_details = conv[p].meta.interview_details
      /\ Last(st[p].messages).role = "ai"
      /\ Last(st[p].messages).type = "ask_position"
      /\ pc[p] = "done" => resp[p].type = "ask_position"

\* A turn answered with the request for a job title.
C16_Witness ==
  \E p \in Procs :
    PositionRejected(p) /\ pc[p] = "done" /\ resp[p].type = "ask_position"

\* C17: validate_cv calls the gateway exactly when the text it validates
\* (cv_text after the append) has at least 50 characters; for a shorter text
\* it makes no call, leaves cv_valid false, answers with the request for more
\* detail and the turn ends.
C17_GatewayCallIffLongEnough ==
  \A p \in Procs :
    cvChecked[p].done =>
      /\ cvChecked[p].called <=> CvLen(cvChecked[p].text) >= 50
      /\ ~cvChecked[p].called =>
           /\ TurnEnded(p)
           /\ ~st[p].meta.cv_valid
           /\ Last(st[p].messages) = AIMessage("cv_sparse", "")
           /\ calls[p] = Count(ran[p], {"validate_position"})
           /\ Last(ran[p]) = "validate_cv"

\* A turn whose 49-character text was turned down without a gateway call.
C17_Witness ==
  \E p \in Procs :
    /\ cvChecked[p].done /\ ~cvChecked[p].called
    /\ CvLen(cvChecked[p].text) = 49
    /\ pc[p] = "done" /\ resp[p].type = "cv_sparse"

Generated(p) ==
  /\ IsTurn(p) /\ TurnEnded(p)
  /\ ran[p] # <<>> /\ Last(ran[p]) = "generate_details"

\* C18: when generate_plan succeeds, interview_details is the completion the
\* gateway returned, status is generated, the completion is the turn's last
\* assistant message, and the handler stores and returns that same text.
C18_PlanIsCompletionVerbatim ==
  \A p \in Procs :
    Generated(p) =>
      /\ st[p].meta.interview_details = got[p]
      /\ st[p].meta.status = "generated"
      /\ st[p].messages # <<>>
      /\ Last(st[p].messages) = AIMessage("plan", got[p])
      /\ pc[p] = "done" =>
           /\ db.meta.interview_details = got[p]
           /\ db.meta.status = "generated"
           /\ db.messages # <<>>
           /\ Last(db.messages) = Message("ai", "plan", got[p])
           /\ resp[p].type = "plan" /\ resp[p].arg = got[p]

\* A start that generated and returned a non-empty plan.
C18_Witness ==
  \E p \in Procs :
    /\ Generated(p) /\ kind[p] = "start" /\ pc[p] = "done"
    /\ got[p] # "" /\ resp[p].arg = got[p]

\* The raw text holds the key followed by true, with or without one space.
RawSaysValid(raw) ==
  \E i \in 1..Len(raw) :
    /\ raw[i] = TokKey
    /\ \/ i + 1 <= Len(raw) /\ raw[i + 1] = "true"
       \/ i + 2 <= Len(raw) /\ raw[i + 1] = " " /\ raw[i + 2] = "true"

Unparsed(p) == cvChecked[p].answer.json = "error"

\* C19: when the CV validator's answer is not parseable JSON, cv_valid
\* becomes true, with the placeholder profile (name Unknown, no skills),
\* exactly when the raw text contains the key followed by true with or
\* without the space; otherwise cv_valid is false and the CV is turned down.
C19_FallbackOnUnparsedAnswer ==
  \A p \in Procs :
    Unparsed(p) =>
      /\ st[p].meta.cv_valid <=> RawSaysValid(cvChecked[p].answer.raw)
      /\ st[p].meta.cv_valid =>
           /\ st[p].meta.cv_details.tag = "dict"
           /\ st[p].meta.cv_details.name = "Unknown"
           /\ st[p].meta.cv_details.skills = <<>>
           /\ st[p].meta.cv_text = cvChecked[p].text
      /\ ~st[p].meta.cv_valid =>
           /\ Last(st[p].messages) = AIMessage("cv_invalid", "")
           /\ pc[p] = "save"

\* An unparseable answer spelling the key without the space, inside code
\* fences, was taken as valid.
C19_Witness ==
  \E p \in Procs :
    /\ Unparsed(p) /\ st[p].meta.cv_valid
    /\ ~Contains(cvChecked[p].answer.raw, <<TokKey, " ", "true">>)
    /\ st[p].meta.cv_details = PlaceholderProfile

\* C20 as stated: after a resume in which refine_plan replaced the plan with
\* a new completion, the persisted status is refining.
C20_RefinedStatusIsRefining ==
  \A p \in Procs :
    ( /\ kind[p] = "resume" /\ pc[p] = "done"
      /\ ran[p] = <<"refine_plan">> /\ calls[p] = 1 )
    => db.meta.status = "refining"

AiCount(msgs) == Cardinality({i \in 1..Len(msgs) : msgs[i].role = "ai"})
UserMessages(p) ==
  IF kind[p] = "resume"
  THEN <<Message("user", "user", st[p].messages[1].arg)>> ELSE <<>>

\* C21: every start or resume turn that completes produced exactly one
\* assistant message; the response carries it, and the stored message log is
\* the loaded log plus, for a resume, the user's message, plus that one ai
\* message.
C21_OneAssistantMessagePerTurn ==
  \A p \in Procs :
    IsTurn(p) /\ pc[p] = "done" =>
      /\ AiCount(st[p].messages) = 1
      /\ st[p].messages # <<>>
      /\ Last(st[p].messages).role = "ai"
      /\ resp[p].type = Last(st[p].messages).type
      /\ resp[p].arg = Last(st[p].messages).arg
      /\ db.messages =
           conv[p].messages \o UserMessages(p)
             \o <<Message("ai", Last(st[p].messages).type, Last(st[p].messages).arg)>>

\* A resume that ran two validators and the generator has saved.
C21_Witness ==
  \E p \in Procs :
    /\ kind[p] = "resume" /\ pc[p] = "done"
    /\ Len(ran[p]) = 3 /\ Len(db.messages) >= 3

\* C22 as stated: whatever create_review calls were made, overlapping ones
\* included, at most one review is stored per conversation.
C22_OneReviewPerConversation ==
  \A c \in ConvIds : Len(ReviewsOf(c)) <= 1

CreateOnEmptyTranscript(h) ==
  /\ rreq[h].op = "create"
  /\ rconvs[rreq[h].conversation_id].exists
  /\ rconvs[rreq[h].conversation_id].transcript = <<>>

\* C23: create_review on a conversation whose transcript is empty fails and
\* never reaches the insert: the owner gets 400 (any other caller was already
\* turned away with 403), so every stored review refers to a conversation
\* with a non-empty transcript.
C23_ReviewNeedsTranscript ==
  /\ \A h \in ReviewProcs :
       CreateOnEmptyTranscript(h) =>
         /\ rpc[h] = "done"
         /\ rresp[h].review = NoReview
         /\ rresp[h].code =
              (IF rconvs[rreq[h].conversation_id].user_id = rreq[h].caller
               THEN 400 ELSE 403)
  /\ \A i \in 1..Len(reviews) :
       /\ rconvs[reviews[i].conversation_id].exists
       /\ rconvs[reviews[i].conversation_id].transcript # <<>>

\* The owner of a conversation without transcript was answered 400 while
\* another conversation has a review.
C23_Witness ==
  \E h \in ReviewProcs :
    /\ CreateOnEmptyTranscript(h) /\ rresp[h].code = 400
    /\ reviews # <<>>

GetAnswered(h) == rpc[h] = "idle" /\ rpc'[h] = "done" /\ rreq'[h].op = "get"

\* C24: get_review answers 404 when the conversation has no review, 403
\* without any review data when the review's user_id is not the caller, and
\* returns the review only to the user it belongs to.
C24_ReviewOnlyToOwner ==
  [][\A h \in ReviewProcs :
       GetAnswered(h) =>
         LET review == FindOneReview(rreq'[h].conversation_id) IN
         /\ review = NoReview => rresp'[h].code = 404
         /\ review # NoReview /\ review.user_id # rreq'[h].caller
              => rresp'[h].code = 403
         /\ rresp'[h].code # 200 => rresp'[h].review = NoReview
         /\ rresp'[h].code = 200 =>
              /\ rresp'[h].review = review
              /\ review.user_id = rreq'[h].caller
              /\ review.conversation_id = rreq'[h].conversation_id]_vars

\* Someone else's review was asked for and refused.
C24_Witness ==
  \E h \in ReviewProcs :
    /\ rpc[h] = "done" /\ rreq[h].op = "get" /\ rresp[h].code = 403
    /\ FindOneReview(rreq[h].conversation_id).user_id # rreq[h].caller

\* C25 as stated: get_review_stats returns a rating_distribution with a key
\* for every rating 1 to 5, also when there is no review, and its counts add
\* up to total_reviews.
C25_DistributionHasAllRatings ==
  \A h \in ReviewProcs :
    rpc[h] = "done" /\ rreq[h].op = "stats" =>
      LET d == rresp[h].stats.rating_distribution IN
      /\ DOMAIN d = {"1", "2", "3", "4", "5"}
      /\ d["1"] + d["2"] + d["3"] + d["4"] + d["5"] = rresp[h].stats.total_reviews

AuthBegins(h, op) == apc[h] = "idle" /\ areq'[h].op = op
AuthEnds(h, op) == areq[h].op = op /\ apc[h] # "done" /\ apc'[h] = "done"
AuthAnswers(h, op) == apc'[h] = "done" /\ apc[h] # "done" /\ areq'[h].op = op
BlacklistedAfter(jti) == \E i \in 1..Len(blacklist') : blacklist'[i] = jti
BlacklistOnlyGrows ==
  /\ Len(blacklist') >= Len(blacklist)
  /\ SubSeq(blacklist', 1, Len(blacklist)) = blacklist

\* C26: a refresh token is redeemed at most once: a refresh call succeeds
\* only by adding the token's jti, not blacklisted until then, to the
\* blacklist, whose entries are never removed; a call that starts once the
\* token is blacklisted is refused as revoked; and a refresh call that fails
\* issues no token.
C26_RefreshTokenRedeemedOnce ==
  [][/\ BlacklistOnlyGrows
     /\ \A h \in AuthProcs :
          /\ AuthEnds(h, "refresh") /\ aresp'[h].code = 200 =>
               /\ ~IsBlacklisted(areq[h].token.jti)
               /\ BlacklistedAfter(areq[h].token.jti)
          /\ AuthBegins(h, "refresh") /\ areq'[h].token.type = "refresh"
               /\ IsBlacklisted(areq'[h].token.jti) =>
               /\ apc'[h] = "done"
               /\ aresp'[h].code = 401 /\ aresp'[h].message = Revoked
          /\ AuthAnswers(h, "refresh") /\ aresp'[h].code # 200 =>
               /\ issued' = issued
               /\ aresp'[h].access_token = NoToken
               /\ aresp'[h].refresh_token = NoToken]_vars

\* Of two overlapping refresh calls with one token, one was served and the
\* other failed on the blacklist's unique index.
C26_Witness ==
  \E h \in AuthProcs :
    /\ areq[h].op = "refresh" /\ apc[h] = "done"
    /\ aresp[h].code = 500
    /\ IsBlacklisted(areq[h].token.jti)

\* C27: once logout has succeeded with a token its jti is blacklisted, so
\* get_current_user refuses that access token as revoked from then on; a
\* logout with a token that is already blacklisted succeeds and adds no
\* entry, and the blacklist never holds a jti twice.
C27_LoggedOutTokenRejected ==
  [][/\ BlacklistOnlyGrows
     /\ \A i, j \in 1..Len(blacklist') : blacklist'[i] = blacklist'[j] => i = j
     /\ \A h \in AuthProcs :
          /\ AuthAnswers(h, "logout") /\ aresp'[h].code = 200 =>
               /\ aresp'[h].message = LoggedOut
               /\ BlacklistedAfter(areq'[h].token.jti)
          /\ AuthBegins(h, "me") /\ areq'[h].token.type = "access"
               /\ IsBlacklisted(areq'[h].token.jti) =>
               /\ apc'[h] = "done"
               /\ aresp'[h].code = 401 /\ aresp'[h].message = Revoked
          /\ AuthBegins(h, "logout") /\ IsBlacklisted(areq'[h].token.jti) =>
               /\ apc'[h] = "done"
               /\ aresp'[h].code = 200 /\ aresp'[h].message = LoggedOut
               /\ blacklist' = blacklist]_vars

\* A request with a logged-out access token was refused as revoked.
C27_Witness ==
  \E h \in AuthProcs :
    /\ areq[h].op = "me" /\ apc[h] = "done"
    /\ areq[h].token.type = "access"
    /\ aresp[h].code = 401 /\ aresp[h].message = Revoked

ForgetAnswered(h) == areq[h].op = "forget" /\ apc[h] = "done"

\* C28: forget_password answers every email, registered or not, with the
\* same response.
C28_ForgetAnswerSameForAnyEmail ==
  \A h \in AuthProcs :
    ForgetAnswered(h) =>
      aresp[h] = [code |-> 200, access_token |-> NoToken,
                  refresh_token |-> NoToken, message |-> ResetLinkSent]

\* Two answered requests, one for a registered email and one for an
\* unknown one, carry equal responses.
C28_Witness ==
  \E g, h \in AuthProcs :
    /\ ForgetAnswered(g) /\ ForgetAnswered(h)
    /\ AccountOf(areq[g].email) # NoAccount
    /\ AccountOf(areq[h].email) = NoAccount
    /\ aresp[g] = aresp[h]
    /\ resets # <<>>

PositionCorrected(p) ==
  /\ kind[p] = "resume"
  /\ ~conv[p].meta.position_valid
  /\ ran[p] # <<>> /\ ran[p][1] = "validate_position"
  /\ fail[p].node # "validate_position"
UserMessage(p) == st[p].messages[1].arg

\* C29: in a resume turn that starts with position_valid = false,
\* validate_position validates the user's message, not the stored position:
\* a rejection names that message and leaves position alone, a success makes
\* position that message, and it is what the turn persists.
C29_CorrectionValidatesUserMessage ==
  \A p \in Procs :
    PositionCorrected(p) =>
      /\ ~st[p].meta.position_valid =>
           /\ Last(st[p].messages) = AIMessage("ask_position", UserMessage(p))
           /\ st[p].meta.position = conv[p].meta.position
      /\ st[p].meta.position_valid => st[p].meta.position = UserMessage(p)
      /\ st[p].meta.position_valid /\ pc[p] = "done" =>
           db.meta.position = UserMessage(p)

\* A corrected position was accepted and stored in place of the old one.
C29_Witness ==
  \E p \in Procs :
    /\ PositionCorrected(p) /\ pc[p] = "done"
    /\ st[p].meta.position_valid
    /\ db.meta.position = UserMessage(p)
    /\ db.meta.position # conv[p].meta.position

\* C30: over any sequence of turns the stored cv_text is only extended:
\* every step leaves it as it is or appends, after the separator, the
\* message of the user whose turn is being saved.
C30_CvTextOnlyExtended ==
  [][db.exists =>
       \/ db'.meta.cv_text = db.meta.cv_text
       \/ \E p \in Procs :
            /\ kind[p] = "resume" /\ pc[p] = "save"
            /\ db'.meta.cv_text.base = db.meta.cv_text.base
            /\ db'.meta.cv_text.ext = Append(db.meta.cv_text.ext, UserMessage(p))
            /\ CvLen(db'.meta.cv_text)
                 = CvLen(db.meta.cv_text) + SepLen + MsgLen(UserMessage(p))]_vars

\* A stored cv_text that carries an appended reply.
C30_Witness ==
  db.exists /\ db.meta.cv_text.ext # <<>> /\ db.meta.cv_text.base = "cv_long"

\* A correction turn whose validate_cv rejected the text has been saved.
CvReplyRejected(p) ==
  /\ kind[p] = "resume" /\ pc[p] = "done"
  /\ ~conv[p].meta.cv_valid
  /\ cvChecked[p].done /\ ~st[p].meta.cv_valid
  /\ cvChecked[p].text = CvAppend(conv[p].meta.cv_text, UserMessage(p))

\* C31: clarifying details accumulate across failed CV turns: once a
\* correction turn in which validate_cv rejected the text has been saved, the
\* stored cv_text is the text validate_cv examined, the loaded text followed
\* by the user's message.
C31_RejectedReplyPersisted ==
  \A p \in Procs :
    CvReplyRejected(p) => db.meta.cv_text = cvChecked[p].text

\* C32: validate_position treats the gateway's answer as valid only when,
\* trimmed and upper-cased, it is the token YES: an answer that merely
\* contains the letters YES is treated as NO.
C32_PositionValidOnlyOnYesToken ==
  \A p \in Procs :
    posAnswer[p] # <<>> =>
      (st[p].meta.position_valid <=> Upper(Strip(posAnswer[p])) = RespYes)

\* C33: once accept has stored status = accepted, every later stored state
\* of the conversation has status = accepted, also when a resume call that
\* loaded the conversation before the accept saves after it.
C33_AcceptedIsFinal ==
  [][db.meta.status = "accepted" => db'.meta.status = "accepted"]_vars

\* C34: accept only accepts a conversation that has a plan: in every stored
\* state, status = accepted implies that interview_details is not empty.
C34_AcceptedHasPlan ==
  db.meta.status = "accepted" => db.meta.interview_details # ""

\* C35: in every stored state, and in the state of every turn under way,
\* cv_valid = true implies position_valid = true: the CV is never validated
\* before the position has been accepted.
C35_CvValidImpliesPositionValid ==
  /\ db.meta.cv_valid => db.meta.position_valid
  /\ \A p \in Procs :
       /\ st[p].meta.cv_valid => st[p].meta.position_valid
       /\ pc[p] = "validate_cv" => st[p].meta.position_valid

\* A turn that validated the position and then the CV has stored both flags.
C35_Witness ==
  \E p \in Procs :
    /\ pc[p] = "done" /\ IsTurn(p)
    /\ \E i \in 1..Len(ran[p]) : ran[p][i] = "validate_cv"
    /\ db.meta.cv_valid /\ db.meta.position_valid
    /\ db.meta = ResultMeta(st[p])

\* The graph of handler p's turn has reached END.
TurnCompleted(p) == IsTurn(p) /\ pc[p] \in {"save", "done"}

\* C36: no completed turn leaves a plan pending: a start or resume turn that
\* completes with position_valid and cv_valid both true has run
\* generate_plan or refine_plan, in that turn or in an earlier one, and its
\* status is not initialized; so no stored state has both flags true and
\* status initialized.
C36_NoPlanPending ==
  /\ \A p \in Procs :
       TurnCompleted(p) /\ BothValid(st[p].meta) =>
         /\ st[p].meta.status # "initialized"
         /\ \/ Count(ran[p], Planners) >= 1
            \/ conv[p].meta.status \in {"generated", "accepted"}
  /\ BothValid(db.meta) => db.meta.status # "initialized"

\* A turn that validated the position and the CV went on to generate the
\* plan and stored it.
C36_Witness ==
  \E p \in Procs :
    /\ pc[p] = "done" /\ kind[p] = "resume"
    /\ ~BothValid(conv[p].meta) /\ BothValid(st[p].meta)
    /\ Last(ran[p]) = "generate_details"
    /\ db.meta.status = "generated" /\ BothValid(db.meta)

\* Handler h's reset_password call has stored a new password.
PasswordWritten(h) ==
  /\ areq[h].op = "reset"
  /\ apc[h] = "reset_mark_used" \/ (apc[h] = "done" /\ aresp[h].code = 200)

\* C37: a password-reset token changes a password at most once: no two
\* reset_password calls, overlapping or not, store a password with the same
\* token, and a call that has succeeded or rejected the token as expired
\* leaves the token used, so that later calls with it fail with 400.
C37_ResetTokenChangesPasswordOnce ==
  /\ \A g, h \in AuthProcs :
       g # h /\ PasswordWritten(g) /\ PasswordWritten(h) =>
         areq[g].reset_token # areq[h].reset_token
  /\ \A h \in AuthProcs :
       areq[h].op = "reset" /\ apc[h] = "done"
         /\ (aresp[h].code = 200 \/ aresp[h].message = ExpiredResetToken) =>
         resets[ResetOf(areq[h].reset_token)].used

\* C38: after any forget_password calls for one user, overlapping ones
\* included, at most one of that user's reset tokens is unused.
C38_OneUnusedResetTokenPerUser ==
  \A i, j \in 1..Len(resets) :
    resets[i].user_id = resets[j].user_id /\ ~resets[i].used /\ ~resets[j].used
      => i = j

\* C39: a chat message added to a conversation is delivered only to
\* websockets of users who are participants of that conversation, whether it
\* came over a websocket or through create_message.
C39_DeliveredOnlyToParticipants ==
  [][\A d \in delivered' \ delivered :
       d.via \in {"websocket", "create_message"} =>
         d.socket.user_id \in chat.participants]_vars

====
